---- MODULE Spec2Model ----
(***************************************************************************)
(* A model of SimpleSQL (src/src/base.py): the result shaping of           *)
(* SimpleSQL._query, the query registry and the routers, the               *)
(* prepare/execute/deallocate life cycle, the notification loop, the       *)
(* compilation of query texts and the binding of arguments, and two tasks  *)
(* executing queries on the one connection.                                *)
(*                                                                         *)
(* Python values are modelled as follows: None is the record NoneValue, a  *)
(* list is a sequence, a dict is a function from its keys, an exception    *)
(* that leaves a coroutine is recorded in the variable holding the call's  *)
(* outcome.                                                                *)
(***************************************************************************)
EXTENDS Integers, Sequences, FiniteSets, TLC

----------------------------------------------------------------------------
(* Bounds of the model. *)

MaxRows == 2
MaxCols == 2
NumValues == 2

ColumnNames == {"a", "b"}
CellValues == 1..NumValues

----------------------------------------------------------------------------
(* Helpers. *)

SeqsUpTo(S, n) == UNION {[1..k -> S] : k \in 0..n}

Maximum(S) == CHOOSE x \in S : \A y \in S : y <= x

Range(s) == {s[i] : i \in DOMAIN s}

----------------------------------------------------------------------------
(* Result shaping: SimpleSQL._query, lines 211-224.                        *)

VARIABLES
    description,    \* cursor.description: NoDescription (None) or the column names
    rows,           \* what cursor.fetchall() returns: a sequence of tuples
    output,         \* the local `output` of _query
    shaped          \* whether lines 211-224 have run

shapeVars == <<description, rows, output, shaped>>

NoDescription == [present |-> FALSE, columns |-> <<>>]
Description(cols) == [present |-> TRUE, columns |-> cols]

\* Python values returned by _query, tagged by their Python type.
NoneValue == [kind |-> "None", v |-> <<>>]
Scalar(x) == [kind |-> "scalar", v |-> x]
DictValue(d) == [kind |-> "dict", v |-> d]
ListValue(l) == [kind |-> "list", v |-> l]

\* {column.name: row[index] for index, column in enumerate(cursor.description)}:
\* a later column of the same name overwrites an earlier one.
RowDict(cols, row) ==
    [n \in Range(cols) |-> row[Maximum({i \in DOMAIN cols : cols[i] = n})]]

\* `if cursor.description:` is false for None and for an empty description.
Truthy(desc) == desc.present /\ Len(desc.columns) > 0

QueryOutputNoneOnEmpty(desc, rs) ==
    IF ~Truthy(desc) \/ Len(rs) = 0 THEN NoneValue
    ELSE IF Len(rs) = 1
         THEN IF Len(desc.columns) = 1
              THEN Scalar(rs[1][1])
              ELSE DictValue(RowDict(desc.columns, rs[1]))
         ELSE IF Len(desc.columns) = 1
              THEN ListValue([r \in DOMAIN rs |-> rs[r][1]])
              ELSE ListValue([r \in DOMAIN rs |-> RowDict(desc.columns, rs[r])])

QueryOutputAlwaysList(desc, rs) ==
    IF ~Truthy(desc) THEN NoneValue
    ELSE IF Len(desc.columns) = 1
         THEN ListValue([r \in DOMAIN rs |-> rs[r][1]])
         ELSE ListValue([r \in DOMAIN rs |-> RowDict(desc.columns, rs[r])])

QueryOutput(desc, rs) ==
    IF ~Truthy(desc) THEN NoneValue
    ELSE IF Len(rs) = 1
         THEN IF Len(desc.columns) = 1
              THEN Scalar(rs[1][1])
              ELSE DictValue(RowDict(desc.columns, rs[1]))
         ELSE IF Len(desc.columns) = 1
              THEN ListValue([r \in DOMAIN rs |-> rs[r][1]])
              ELSE ListValue([r \in DOMAIN rs |-> RowDict(desc.columns, rs[r])])

\* The result sets a driver can hand back for a description of the given
\* columns: up to MaxRows rows of matching width.
RowsFor(cols) == UNION {[1..k -> [1..Len(cols) -> CellValues]] : k \in 0..MaxRows}

ShapeIdle ==
    /\ description = NoDescription
    /\ rows = <<>>
    /\ output = NoneValue
    /\ shaped = FALSE

ShapeResult ==
    /\ ~shaped
    /\ output' = QueryOutput(description, rows)
    /\ shaped' = TRUE
    /\ UNCHANGED <<description, rows>>

----------------------------------------------------------------------------
(* The client's registry, listeners and pipes, and the routers:            *)
(* SimpleSQL.__init__ .. include_pipe and SQLRouter.                       *)

MaxQueries == 3     \* Query objects created (each draws a fresh uuid4)
MaxEntries == 2     \* items of one directory listing
MaxCalls == 4       \* calls that compose listeners and pipes
MaxPipes == 2       \* pipe callbacks registered

Routers == {"r1", "r2"}
Channels == <<"orders", "users">>
Callbacks == {"f", "g"}

VARIABLES
    queries,            \* SimpleSQL.queries: identifier -> Query
    nextGuid,           \* the uuid4 the next Query object draws
    routerDatabase,     \* SQLRouter.database of each router: "None" or "client"
    lists,              \* the list objects holding callbacks, by identity
    routerListeners,    \* SQLRouter.listeners: event -> identity of its list
    listeners,          \* SimpleSQL.listeners: event -> identity of its list
    pipes,              \* SimpleSQL.pipes
    result,             \* the last call and how it ended
    calls,              \* the number of calls made so far that compose listeners and pipes
    merged,             \* history: <<parent, child>> for each parent.include_router(child)
    covered             \* history: the routers attached, with those merged into them before

setupVars == <<queries, nextGuid, routerDatabase, lists, routerListeners,
               listeners, pipes, result, calls, merged, covered>>

Returned(call, arg, value) ==
    [call |-> call, arg |-> arg, raised |-> FALSE, value |-> value]
Raised(call, arg) ==
    [call |-> call, arg |-> arg, raised |-> TRUE, value |-> NoneValue]

EmptyDict == [e \in {} |-> 0]

SetupIdle ==
    /\ queries = EmptyDict
    /\ nextGuid = 1
    /\ routerDatabase = [r \in Routers |-> "None"]
    /\ lists = <<>>
    /\ routerListeners = [r \in Routers |-> EmptyDict]
    /\ listeners = EmptyDict
    /\ pipes = <<>>
    /\ result = Returned("__init__", "", NoneValue)
    /\ calls = 0
    /\ merged = {}
    /\ covered = {}

\* ---- Query objects and include_queries ----

\* Query.__init__ and the guid drawn in _process_query.
Query(name, text, guid) == [name |-> name, query |-> text, guid |-> guid]

\* str.upper() on the strings the model uses.
Upper(s) ==
    CASE s = "a" -> "A"
      [] s = "b" -> "B"
      [] s = ".sql" -> ".SQL"
      [] s = ".Sql" -> ".SQL"
      [] s = ".txt" -> ".TXT"
      [] OTHER -> s

\* identifier: str = (prefix + '_' if prefix else '') + name.upper()
\* (prefix None and prefix '' are both false: "" stands for either).
Identifier(prefix, name) ==
    (IF prefix # "" THEN prefix \o "_" ELSE "") \o Upper(name)

DictSet(d, k, v) == [x \in DOMAIN d \cup {k} |-> IF x = k THEN v ELSE d[x]]

\* One directory item, already split by splitext into name and extension.
File(name, extension, text) ==
    [kind |-> "file", name |-> name, extension |-> extension, text |-> text,
     entries |-> <<>>]
Directory(name, entries) ==
    [kind |-> "dir", name |-> name, extension |-> "", text |-> "",
     entries |-> entries]

\* include_queries(path, prefix): the items of listdir(path) in the order
\* listdir returns them; a sub-directory recurses with its identifier as prefix.
RECURSIVE IncludeQueriesFrom(_, _, _, _)
IncludeQueriesFrom(reg, guid, entries, prefix) ==
    IF entries = <<>> THEN [queries |-> reg, nextGuid |-> guid]
    ELSE
        LET item == Head(entries)
            identifier == Identifier(prefix, item.name)
        IN  IF item.kind = "file"
            THEN IF Upper(item.extension) = ".SQL"
                 THEN IncludeQueriesFrom(
                          DictSet(reg, identifier,
                                  Query(Upper(item.name), item.text, guid)),
                          guid + 1, Tail(entries), prefix)
                 ELSE IncludeQueriesFrom(reg, guid, Tail(entries), prefix)
            ELSE LET sub == IncludeQueriesFrom(reg, guid, item.entries, identifier)
                 IN  IncludeQueriesFrom(sub.queries, sub.nextGuid, Tail(entries), prefix)

\* The directory trees given to include_queries: the files a.Sql and A.Sql
\* (one identifier on a case-sensitive file system), a file that is no .sql
\* file, and a directory "a", empty or holding a.Sql. One listing never
\* holds the same item name twice.
SqlFiles == {File("a", ".Sql", "q1"), File("A", ".Sql", "q2")}
OtherFiles == {File("a", ".txt", "q1")}
Files == SqlFiles \cup OtherFiles
Directories == {Directory("a", <<>>), Directory("a", <<File("a", ".Sql", "q2")>>)}
ItemName(item) == item.name \o item.extension
Listings ==
    {l \in SeqsUpTo(Files \cup Directories, MaxEntries) :
        \A i, j \in DOMAIN l : i # j => ItemName(l[i]) # ItemName(l[j])}
Prefixes == {"", "A"}

\* The number of Query objects a listing creates.
RECURSIVE CountQueries(_)
CountQueries(entries) ==
    IF entries = <<>> THEN 0
    ELSE LET item == Head(entries)
         IN  (IF item.kind = "file"
              THEN (IF Upper(item.extension) = ".SQL" THEN 1 ELSE 0)
              ELSE CountQueries(item.entries))
             + CountQueries(Tail(entries))

IncludeQueries(listing, prefix) ==
    /\ nextGuid + CountQueries(listing) <= MaxQueries + 1
    /\ LET r == IncludeQueriesFrom(queries, nextGuid, listing, prefix)
       IN  /\ queries' = r.queries
           /\ nextGuid' = r.nextGuid
    /\ result' = Returned("include_queries", "", NoneValue)
    /\ UNCHANGED <<routerDatabase, lists, routerListeners, listeners, pipes, calls, merged, covered>>

\* ---- query lookup ----

GetQueryOrNone(name) ==
    IF name \in DOMAIN queries
    THEN Returned("get_query", name, queries[name])
    ELSE Returned("get_query", name, NoneValue)

\* SimpleSQL.get_query
GetQuery(name) ==
    IF name \in DOMAIN queries
    THEN Returned("get_query", name, queries[name])
    ELSE Raised("get_query", name)

\* The names looked up: every identifier include_queries can produce here,
\* and one it cannot.
QueryNames == {"A", "A_A", "A_A_A", "MISSING"}

\* SimpleSQL.__getattr__(name)
ClientGetattr(name) ==
    /\ result' = [GetQuery(name) EXCEPT !.call = "SimpleSQL.__getattr__"]
    /\ UNCHANGED <<queries, nextGuid, routerDatabase, lists, routerListeners,
                   listeners, pipes, calls, merged, covered>>

\* SQLRouter.__getattr__(name)
RouterLookup(r, name) ==
    IF routerDatabase[r] # "None"
    THEN [GetQuery(name) EXCEPT !.call = "SQLRouter.__getattr__", !.arg = <<r, name>>]
    ELSE Raised("SQLRouter.__getattr__", <<r, name>>)

RouterGetattr(r, name) ==
    /\ result' = RouterLookup(r, name)
    /\ UNCHANGED <<queries, nextGuid, routerDatabase, lists, routerListeners,
                   listeners, pipes, calls, merged, covered>>

\* ---- listeners ----

\* add_listener on a listeners dict: append to the event's list object, or
\* bind the event to a new list [callback].
AddTo(dict, event, callback) ==
    IF event \in DOMAIN dict
    THEN [dict |-> dict,
          lists |-> [lists EXCEPT ![dict[event]] = Append(@, callback)]]
    ELSE [dict |-> DictSet(dict, event, Len(lists) + 1),
          lists |-> Append(lists, <<callback>>)]

\* SQLRouter.add_listener, and SQLRouter.listen(event)(callback)
RouterAddListener(r, event, callback) ==
    /\ calls < MaxCalls
    /\ calls' = calls + 1
    /\ LET a == AddTo(routerListeners[r], event, callback)
       IN  /\ routerListeners' = [routerListeners EXCEPT ![r] = a.dict]
           /\ lists' = a.lists
    /\ result' = Returned("SQLRouter.add_listener", "", NoneValue)
    /\ UNCHANGED <<queries, nextGuid, routerDatabase, listeners, pipes, merged, covered>>

\* SimpleSQL.add_listener
AddListener(event, callback) ==
    /\ calls < MaxCalls
    /\ calls' = calls + 1
    /\ LET a == AddTo(listeners, event, callback)
       IN  /\ listeners' = a.dict
           /\ lists' = a.lists
    /\ result' = Returned("add_listener", "", NoneValue)
    /\ UNCHANGED <<queries, nextGuid, routerDatabase, routerListeners, pipes, merged, covered>>

\* The events two dicts share, in a fixed order.
Shared(target, source) ==
    SelectSeq(Channels, LAMBDA e : e \in DOMAIN target /\ e \in DOMAIN source)

IndexOf(s, e) == CHOOSE i \in DOMAIN s : s[i] = e

MergeSourceFirst(target, source) ==
    LET both == Shared(target, source)
    IN  [dict |-> [e \in DOMAIN target \cup DOMAIN source |->
                    IF e \in Range(both) THEN Len(lists) + IndexOf(both, e)
                    ELSE IF e \in DOMAIN source THEN source[e]
                    ELSE target[e]],
         lists |-> lists \o [k \in DOMAIN both |->
                    lists[source[both[k]]] \o lists[target[both[k]]]]]

\* The loop of include_router: an event the target already has is rebound
\* to a new list, target's callbacks followed by source's; any other event of
\* the source is bound to the source's own list object.
Merge(target, source) ==
    LET both == Shared(target, source)
    IN  [dict |-> [e \in DOMAIN target \cup DOMAIN source |->
                    IF e \in Range(both) THEN Len(lists) + IndexOf(both, e)
                    ELSE IF e \in DOMAIN source THEN source[e]
                    ELSE target[e]],
         lists |-> lists \o [k \in DOMAIN both |->
                    lists[target[both[k]]] \o lists[source[both[k]]]]]

\* SQLRouter.include_router
RouterIncludeRouter(parent, child) ==
    /\ calls < MaxCalls
    /\ calls' = calls + 1
    /\ LET m == Merge(routerListeners[parent], routerListeners[child])
       IN  /\ routerListeners' = [routerListeners EXCEPT ![parent] = m.dict]
           /\ lists' = m.lists
    /\ merged' = merged \cup {<<parent, child>>}
    /\ result' = Returned("SQLRouter.include_router", "", NoneValue)
    /\ UNCHANGED <<queries, nextGuid, routerDatabase, listeners, pipes, covered>>

\* The routers merged into r, directly or through other routers (history).
RECURSIVE MergedInto(_, _)
MergedInto(rs, n) ==
    IF n = 0 THEN rs
    ELSE MergedInto(rs \cup {c \in Routers : \E p \in rs : <<p, c>> \in merged}, n - 1)

\* SimpleSQL.include_router
IncludeRouter(r) ==
    /\ calls < MaxCalls
    /\ calls' = calls + 1
    /\ IF routerDatabase[r] = "None"
       THEN /\ routerDatabase' = [routerDatabase EXCEPT ![r] = "client"]
            /\ LET m == Merge(listeners, routerListeners[r])
               IN  /\ listeners' = m.dict
                   /\ lists' = m.lists
            /\ result' = Returned("include_router", r, NoneValue)
            /\ covered' = covered \cup MergedInto({r}, Cardinality(Routers))
       ELSE /\ result' = Raised("include_router", r)
            /\ UNCHANGED <<routerDatabase, listeners, lists, covered>>
    /\ UNCHANGED <<queries, nextGuid, routerListeners, pipes, merged>>

\* SimpleSQL.include_pipe
IncludePipe(callback) ==
    /\ Len(pipes) < MaxPipes
    /\ calls < MaxCalls
    /\ calls' = calls + 1
    /\ pipes' = Append(pipes, callback)
    /\ result' = Returned("include_pipe", "", NoneValue)
    /\ UNCHANGED <<queries, nextGuid, routerDatabase, lists, routerListeners,
                   listeners, merged, covered>>

\* The callbacks a listeners dict holds for an event: dict.get(event, []).
ListenersOf(dict, event) ==
    IF event \in DOMAIN dict THEN lists[dict[event]] ELSE <<>>

----------------------------------------------------------------------------
(* The life cycle: SimpleSQL.start, stop, _execute, _prepare, _deallocate, *)
(* Query.prepare / deallocate / execute and SimpleSQL._query, used by one  *)
(* caller that awaits each call before making the next.                    *)

MaxRegistered == 2      \* queries in the registry when start() is called
MaxExecutions == 2      \* query executions between start() and stop()

VARIABLES
    connection,     \* SimpleSQL.connection: "None", "open" or "closed"
    prepared,       \* the guids of the statements prepared on the server
    mainPc,         \* where the caller of start() and stop() is
    pending,        \* the queries the loop of _prepare / _deallocate has still to visit
    startOutcome,   \* "none", "returned" or "raised": how start() ended
    stopOutcome,    \* "none", "returned" or "raised": how stop() ended
    rejected,       \* history: the guids whose PREPARE the driver rejected
    execPc,         \* where the running _query is
    execGuid,       \* the guid of the statement _query executes
    execCalls,      \* the connection and cursor calls the running _query has made
    execReturn,     \* how the last _query ended, and its value
    execError,      \* whether the driver reported an Error for the statement
    executions      \* the number of _query calls made so far

lifeVars == <<connection, prepared, mainPc, pending, startOutcome, stopOutcome,
              rejected, execPc, execGuid, execCalls, execReturn, execError,
              executions>>

Pending == [call |-> "_query", arg |-> "", raised |-> FALSE, value |-> NoneValue]

LifeIdle ==
    /\ connection = "None"
    /\ prepared = {}
    /\ mainPc = "init"
    /\ pending = <<>>
    /\ startOutcome = "none"
    /\ stopOutcome = "none"
    /\ rejected = {}
    /\ execPc = "idle"
    /\ execGuid = 0
    /\ execCalls = <<>>
    /\ execReturn = Pending
    /\ execError = FALSE
    /\ executions = 0

\* The identifiers of a registry of i queries: "A", "A_A", ...
RECURSIVE IdentifierAt(_)
IdentifierAt(i) == IF i = 1 THEN "A" ELSE Identifier(IdentifierAt(i - 1), "a")

\* A registry of k queries, as k calls of Query(...) leave it.
RegistryOf(k) ==
    [id \in {IdentifierAt(i) : i \in 1..k} |->
        Query("A", "q1", CHOOSE i \in 1..k : IdentifierAt(i) = id)]

\* self.queries.values(): the queries in the order they were created.
RECURSIVE InOrder(_)
InOrder(ids) ==
    IF ids = {} THEN <<>>
    ELSE LET first == CHOOSE x \in ids :
                        \A y \in ids : queries[x].guid <= queries[y].guid
         IN  <<queries[first].guid>> \o InOrder(ids \ {first})

\* What the server does with a statement. PREPARE is rejected when the
\* driver reports an error for it (accepted = FALSE) or the name is taken;
\* DEALLOCATE is rejected exactly when no such statement is prepared.
Statement(kind, guid) == [kind |-> kind, guid |-> guid]

ServerAccepts(statement, accepted) ==
    IF statement.kind = "PREPARE"
    THEN accepted /\ statement.guid \notin prepared
    ELSE statement.guid \in prepared

ServerAfter(statement) ==
    IF statement.kind = "PREPARE"
    THEN prepared \cup {statement.guid}
    ELSE prepared \ {statement.guid}

\* SimpleSQL._execute: a driver Error is printed, rolled back and answered
\* with False; otherwise commit, close the cursor and answer True.
Execute(statement, accepted) ==
    IF ServerAccepts(statement, accepted)
    THEN [prepared |-> ServerAfter(statement), returned |-> TRUE]
    ELSE [prepared |-> prepared, returned |-> FALSE]

\* start(): Connection.connect(...), which may raise; then _prepare().
StartConnect(connected) ==
    /\ mainPc = "init"
    /\ IF connected
       THEN /\ connection' = "open"
            /\ pending' = InOrder(DOMAIN queries)
            /\ mainPc' = IF DOMAIN queries = {} THEN "started" ELSE "preparing"
            /\ startOutcome' = IF DOMAIN queries = {} THEN "returned" ELSE "none"
       ELSE /\ mainPc' = "failed"
            /\ startOutcome' = "raised"
            /\ UNCHANGED <<connection, pending>>
    /\ UNCHANGED <<prepared, stopOutcome, rejected, execPc, execGuid, execCalls,
                   execReturn, execError, executions>>

\* One turn of the loop of _prepare: Query.prepare() awaits _execute and
\* drops its answer; start() returns after the last turn.
StartPrepare(accepted) ==
    /\ mainPc = "preparing"
    /\ LET guid == Head(pending)
           e == Execute(Statement("PREPARE", guid), accepted)
       IN  /\ prepared' = e.prepared
           /\ rejected' = IF e.returned THEN rejected ELSE rejected \cup {guid}
           /\ pending' = Tail(pending)
           /\ mainPc' = IF Tail(pending) = <<>> THEN "started" ELSE "preparing"
           /\ startOutcome' = IF Tail(pending) = <<>> THEN "returned" ELSE "none"
    /\ UNCHANGED <<connection, stopOutcome, execPc, execGuid, execCalls,
                   execReturn, execError, executions>>

StopSkipsDeallocate ==
    /\ mainPc = "started"
    /\ execPc \in {"idle", "done"}
    /\ pending' = <<>>
    /\ mainPc' = "closing"
    /\ UNCHANGED <<connection, prepared, startOutcome, stopOutcome, rejected,
                   execPc, execGuid, execCalls, execReturn, execError, executions>>

\* stop(): _deallocate() over every query, then connection.close().
Stop ==
    /\ mainPc = "started"
    /\ execPc \in {"idle", "done"}
    /\ pending' = InOrder(DOMAIN queries)
    /\ mainPc' = IF DOMAIN queries = {} THEN "closing" ELSE "deallocating"
    /\ UNCHANGED <<connection, prepared, startOutcome, stopOutcome, rejected,
                   execPc, execGuid, execCalls, execReturn, execError, executions>>

\* One turn of the loop of _deallocate.
StopDeallocate ==
    /\ mainPc = "deallocating"
    /\ LET guid == Head(pending)
           e == Execute(Statement("DEALLOCATE", guid), TRUE)
       IN  /\ prepared' = e.prepared
           /\ pending' = Tail(pending)
           /\ mainPc' = IF Tail(pending) = <<>> THEN "closing" ELSE "deallocating"
    /\ UNCHANGED <<connection, startOutcome, stopOutcome, rejected, execPc, execGuid,
                   execCalls, execReturn, execError, executions>>

\* await self.connection.close()
StopClose ==
    /\ mainPc = "closing"
    /\ connection' = "closed"
    /\ mainPc' = "stopped"
    /\ stopOutcome' = "returned"
    /\ UNCHANGED <<prepared, pending, startOutcome, rejected, execPc, execGuid,
                   execCalls, execReturn, execError, executions>>

\* Query.execute(data) -> _query(self.execute_query, ...): the cursor is made.
QueryBegin(identifier) ==
    /\ mainPc = "started"
    /\ execPc \in {"idle", "done"}
    /\ executions < MaxExecutions
    /\ identifier \in DOMAIN queries
    /\ executions' = executions + 1
    /\ execGuid' = queries[identifier].guid
    /\ execPc' = "execute"
    /\ execCalls' = <<>>
    /\ execReturn' = Pending
    /\ execError' = FALSE
    /\ description' = NoDescription
    /\ rows' = <<>>
    /\ output' = NoneValue
    /\ shaped' = FALSE
    /\ UNCHANGED <<connection, prepared, mainPc, pending, startOutcome,
                   stopOutcome, rejected>>

\* The result sets the executed statement can produce: no result set, or
\* up to MaxRows rows under a description of up to MaxCols columns.
ExecutionResults ==
    {[description |-> NoDescription, rows |-> <<>>]} \cup
    {[description |-> Description(cols),
      rows |-> [i \in 1..k |-> [c \in 1..Len(cols) |-> ((i - 1) % NumValues) + 1]]] :
        cols \in SeqsUpTo(ColumnNames, MaxCols), k \in 0..MaxRows}

\* await cursor.execute(query, data): the driver reports an Error (always,
\* when the statement is not prepared) or the cursor holds a result.
QueryExecute(succeeds, r) ==
    /\ execPc = "execute"
    /\ execCalls' = Append(execCalls, "execute")
    /\ IF succeeds /\ execGuid \in prepared
       THEN /\ description' = r.description
            /\ rows' = r.rows
            /\ execPc' = "fetchall"
            /\ execError' = FALSE
       ELSE /\ execPc' = "rollback"
            /\ execError' = TRUE
            /\ UNCHANGED <<description, rows>>
    /\ UNCHANGED <<output, shaped, connection, prepared, mainPc, pending,
                   startOutcome, stopOutcome, rejected, execGuid, execReturn,
                   executions>>

QueryRollbackFallsThrough ==
    /\ execPc = "rollback"
    /\ execCalls' = Append(execCalls, "rollback")
    /\ execPc' = "fetchall"
    /\ UNCHANGED <<execReturn, description, rows, output, shaped, connection, prepared,
                   mainPc, pending, startOutcome, stopOutcome, rejected, execGuid,
                   execError, executions>>

\* except Error: await self.connection.rollback(); return None
QueryRollback ==
    /\ execPc = "rollback"
    /\ execCalls' = Append(execCalls, "rollback")
    /\ execPc' = "done"
    /\ execReturn' = Returned("_query", "", NoneValue)
    /\ UNCHANGED <<description, rows, output, shaped, connection, prepared,
                   mainPc, pending, startOutcome, stopOutcome, rejected, execGuid,
                   execError, executions>>

\* output = None; if cursor.description: rows = await cursor.fetchall(); ...
QueryFetchall ==
    /\ execPc = "fetchall"
    /\ execCalls' = IF Truthy(description) THEN Append(execCalls, "fetchall")
                    ELSE execCalls
    /\ output' = QueryOutput(description, rows)
    /\ shaped' = TRUE
    /\ execPc' = "commit"
    /\ UNCHANGED <<description, rows, connection, prepared, mainPc, pending,
                   startOutcome, stopOutcome, rejected, execGuid, execReturn,
                   execError, executions>>

\* await self.connection.commit()
QueryCommit ==
    /\ execPc = "commit"
    /\ execCalls' = Append(execCalls, "commit")
    /\ execPc' = "close"
    /\ UNCHANGED <<description, rows, output, shaped, connection, prepared,
                   mainPc, pending, startOutcome, stopOutcome, rejected, execGuid,
                   execReturn, execError, executions>>

\* await cursor.close(); return output
QueryReturn ==
    /\ execPc = "close"
    /\ execCalls' = Append(execCalls, "close")
    /\ execPc' = "done"
    /\ execReturn' = Returned("_query", "", output)
    /\ UNCHANGED <<description, rows, output, shaped, connection, prepared,
                   mainPc, pending, startOutcome, stopOutcome, rejected, execGuid,
                   execError, executions>>

----------------------------------------------------------------------------
(* The notification loop: SimpleSQL._listen.                               *)

MaxListeners == 2       \* callbacks registered for one channel
MaxNotifies == 2        \* notifications the loop receives

VARIABLES
    subscribed,     \* the channels the server session has under LISTEN
    listenPc,       \* where _listen is
    notification,   \* the notification being dispatched: channel and payload
    index,          \* the position of the next callback in its list
    delivered,      \* the calls made for this notification, each with its argument
    received,       \* the number of notifications received so far
    listenOutcome,  \* "none", or "raised" once an exception has left _listen
    cursorOpen,     \* whether _listen holds a cursor it has not closed
    closedUse       \* history: the commands _listen issued on a closed connection

listenVars == <<subscribed, listenPc, notification, index, delivered, received,
                listenOutcome, cursorOpen, closedUse>>

NoNotification == [channel |-> "", payload |-> ""]

ListenIdle ==
    /\ subscribed = {}
    /\ listenPc = "idle"
    /\ notification = NoNotification
    /\ index = 0
    /\ delivered = <<>>
    /\ received = 0
    /\ listenOutcome = "none"
    /\ cursorOpen = FALSE
    /\ closedUse = <<>>

\* The payloads notifications carry: a JSON object, a JSON number and a
\* text that is no JSON document.
Payloads == {"{\"id\":1}", "7", "not-json"}

\* Python values handed to callbacks, tagged by their Python type.
StrValue(s) == [kind |-> "str", v |-> s]
IntValue(n) == [kind |-> "int", v |-> n]

\* json.loads(payload): the decoded value, or JSONDecodeError.
IsJson(payload) == payload \in {"{\"id\":1}", "7"}
Loads(payload) ==
    CASE payload = "{\"id\":1}" -> DictValue([k \in {"id"} |-> 1])
      [] payload = "7" -> IntValue(7)

\* What a callback does with its argument: it returns, raises
\* JSONDecodeError, or raises another exception.
ListenerOutcomes == {"returns", "JSONDecodeError", "Exception"}

\* One call of a callback, as the loop makes it.
Call(to, i, arg, outcome) == [to |-> to, index |-> i, arg |-> arg, outcome |-> outcome]

\* cursor = self.connection.cursor();
\* await cursor.execute(f'LISTEN "{event}";') for every event;
\* await self.connection.commit()
ListenSubscribe ==
    /\ listenPc = "idle"
    /\ connection = "open"
    /\ subscribed' = subscribed \cup DOMAIN listeners
    /\ listenPc' = "waiting"
    /\ cursorOpen' = TRUE
    /\ UNCHANGED <<notification, index, delivered, received, listenOutcome, closedUse>>

\* The same lines when the driver raises for one of the LISTEN commands or
\* for the commit. They stand before the try statement, so the exception
\* leaves _listen at once; the transaction holding the LISTEN commands is
\* never committed, so the session is subscribed to nothing new.
ListenSubscribeFails ==
    /\ listenPc = "idle"
    /\ connection = "open"
    /\ listenPc' = "left"
    /\ listenOutcome' = "raised"
    /\ cursorOpen' = TRUE
    /\ UNCHANGED <<subscribed, notification, index, delivered, received, closedUse>>

\* Where the loop body goes after the callback at position i of a phase:
\* the next listener, else the first pipe, else the wait for a notification.
After(phase, i, channel) ==
    IF phase = "listeners" /\ i < Len(ListenersOf(listeners, channel))
    THEN [pc |-> "listeners", index |-> i + 1]
    ELSE IF phase = "listeners" /\ Len(pipes) > 0
    THEN [pc |-> "pipes", index |-> 1]
    ELSE IF phase = "pipes" /\ i < Len(pipes)
    THEN [pc |-> "pipes", index |-> i + 1]
    ELSE [pc |-> "waiting", index |-> 0]

\* async for notify in self.connection.notifies(): a notification arrives
\* on a channel under LISTEN.
Receive(channel, payload) ==
    /\ listenPc = "waiting"
    /\ received < MaxNotifies
    /\ channel \in subscribed
    /\ received' = received + 1
    /\ notification' = [channel |-> channel, payload |-> payload]
    /\ delivered' = <<>>
    /\ LET next == After("listeners", 0, channel)
       IN  /\ listenPc' = next.pc
           /\ index' = next.index
    /\ UNCHANGED <<subscribed, listenOutcome, cursorOpen, closedUse>>

\* try: await listener(loads(notify.payload))
\* except JSONDecodeError: await listener(notify.payload)
\* `first` is what the call with the decoded payload does, `second` what
\* the call in the except clause does. Any exception but a JSONDecodeError
\* of the try clause leaves the loop for the finally clause.
CallListener(first, second) ==
    /\ listenPc = "listeners"
    /\ LET payload == notification.payload
           raw == StrValue(payload)
           decodedCall ==
               IF IsJson(payload)
               THEN <<Call("listener", index, Loads(payload), first)>>
               ELSE <<>>
           caught == ~IsJson(payload) \/ first = "JSONDecodeError"
           rawCall ==
               IF caught THEN <<Call("listener", index, raw, second)>> ELSE <<>>
           leaves == IF caught THEN second # "returns" ELSE first # "returns"
           next == After("listeners", index, notification.channel)
       IN  \* an outcome of a call that is not made is not a choice
           /\ IsJson(payload) \/ first = "JSONDecodeError"
           /\ caught \/ second = "returns"
           /\ delivered' = delivered \o decodedCall \o rawCall
           /\ IF leaves
              THEN /\ listenPc' = "finally"
                   /\ listenOutcome' = "raised"
                   /\ UNCHANGED index
              ELSE /\ listenPc' = next.pc
                   /\ index' = next.index
                   /\ UNCHANGED listenOutcome
    /\ UNCHANGED <<subscribed, notification, received, cursorOpen, closedUse>>

\* await pipe(notify.channel, notify.payload)
CallPipe(outcome) ==
    /\ listenPc = "pipes"
    /\ delivered' = Append(delivered,
                           Call("pipe", index, StrValue(notification.payload), outcome))
    /\ IF outcome # "returns"
       THEN /\ listenPc' = "finally"
            /\ listenOutcome' = "raised"
            /\ UNCHANGED index
       ELSE LET next == After("pipes", index, notification.channel)
            IN  /\ listenPc' = next.pc
                /\ index' = next.index
                /\ UNCHANGED listenOutcome
    /\ UNCHANGED <<subscribed, notification, received, cursorOpen, closedUse>>

\* The task running _listen is cancelled while it awaits inside the try
\* statement: CancelledError is raised there and the finally clause runs.
ListenCancel ==
    /\ listenPc \in {"waiting", "listeners", "pipes"}
    /\ listenPc' = "finally"
    /\ listenOutcome' = "raised"
    /\ UNCHANGED <<subscribed, notification, index, delivered, received,
                   cursorOpen, closedUse>>

\* self.connection.notifies() on a connection that stop() has closed: the
\* driver raises OperationalError and the finally clause runs.
ListenConnectionLost ==
    /\ listenPc = "waiting"
    /\ connection = "closed"
    /\ closedUse' = Append(closedUse, "notifies")
    /\ listenPc' = "finally"
    /\ listenOutcome' = "raised"
    /\ UNCHANGED <<subscribed, notification, index, delivered, received, cursorOpen>>

\* finally: UNLISTEN every event, commit, close the cursor.
ListenFinally ==
    /\ listenPc = "finally"
    /\ connection = "open"
    /\ subscribed' = subscribed \ DOMAIN listeners
    /\ listenPc' = "left"
    /\ cursorOpen' = FALSE
    /\ UNCHANGED <<notification, index, delivered, received, listenOutcome, closedUse>>

\* The finally clause when the driver raises for one of the UNLISTEN
\* commands or for the commit: the exception leaves the clause, the
\* commands after it and cursor.close() are not run, and the transaction
\* holding the earlier UNLISTEN commands is never committed.
ListenFinallyFails ==
    /\ listenPc = "finally"
    /\ connection = "open"
    /\ listenPc' = "left"
    /\ listenOutcome' = "raised"
    /\ UNCHANGED <<subscribed, notification, index, delivered, received,
                   cursorOpen, closedUse>>

\* The finally clause on a closed connection: its first command (UNLISTEN
\* when there is a channel, else the commit) is issued and the driver
\* raises OperationalError.
ListenFinallyOnClosed ==
    /\ listenPc = "finally"
    /\ connection = "closed"
    /\ closedUse' = Append(closedUse, IF DOMAIN listeners # {} THEN "UNLISTEN" ELSE "commit")
    /\ listenPc' = "left"
    /\ listenOutcome' = "raised"
    /\ UNCHANGED <<subscribed, notification, index, delivered, received, cursorOpen>>

----------------------------------------------------------------------------
(* Query compilation and argument binding: Query._process_query and        *)
(* Query.execute.                                                          *)

MaxTokens == 4      \* pieces (literal texts and replacement fields) of one query text

VARIABLES
    template,       \* Query.query, as the pieces string.Formatter.parse splits it into
    parameters,     \* Query.parameters
    prepareQuery,   \* the statement text of Query.prepare_query, after "AS"
    executeQuery,   \* the placeholders of Query.execute_query
    compilePc,      \* "new", "compiled" or "executed"
    data,           \* the dict given to Query.execute
    bound           \* the dict Query.execute passes on to _query

compileVars == <<template, parameters, prepareQuery, executeQuery, compilePc,
                 data, bound>>

CompileIdle ==
    /\ template = <<>>
    /\ parameters = <<>>
    /\ prepareQuery = <<>>
    /\ executeQuery = <<>>
    /\ compilePc = "new"
    /\ data = EmptyDict
    /\ bound = EmptyDict

\* A piece of query text: literal text without braces, or a replacement
\* field {name} or {name:spec}, kept with the text it stands for.
Literal(text) == [kind |-> "literal", text |-> text, name |-> "", spec |-> ""]
Field(name, spec) ==
    [kind |-> "field",
     text |-> "{" \o name \o (IF spec # "" THEN ":" \o spec ELSE "") \o "}",
     name |-> name, spec |-> spec]

\* The pieces query texts are made of: two literal texts, the fields {a}
\* and {b}, the field {a:x} with a format specification, and the field {}.
Tokens ==
    {Literal("SELECT "), Literal(";"), Field("a", ""), Field("b", ""),
     Field("a", "x"), Field("", "")}

\* [item[1] for item in formatter.parse(query_replace) if item[1]]
FieldNames(tokens) ==
    LET fields == SelectSeq(tokens, LAMBDA t : t.kind = "field" /\ t.name # "")
    IN  [i \in DOMAIN fields |-> fields[i].name]

\* list(dict.fromkeys(names)): each name once, at its first occurrence.
RECURSIVE FromKeys(_)
FromKeys(names) ==
    IF names = <<>> THEN <<>>
    ELSE LET front == FromKeys(SubSeq(names, 1, Len(names) - 1))
             last == names[Len(names)]
         IN  IF last \in Range(front) THEN front ELSE Append(front, last)

\* str(index + 1)
Digits == <<"1", "2", "3", "4", "5", "6", "7", "8", "9">>
Str(n) == Digits[n]

\* str.replace(old, new): braces only delimit fields, so an occurrence of
\* '{name}' is exactly a piece with that text.
Replace(tokens, old, new) ==
    [i \in DOMAIN tokens |-> IF tokens[i].text = old THEN Literal(new) ELSE tokens[i]]

\* for index, parameter in enumerate(self.parameters):
\*     query_replace = query_replace.replace('{' + parameter + '}', '$' + str(index + 1))
RECURSIVE ReplaceParameters(_, _, _)
ReplaceParameters(tokens, params, position) ==
    IF position > Len(params) THEN tokens
    ELSE ReplaceParameters(
             Replace(tokens, "{" \o params[position] \o "}", "$" \o Str(position)),
             params, position + 1)

\* str.removesuffix(suffix)
RemoveSuffix(tokens, suffix) ==
    IF tokens # <<>> /\ tokens[Len(tokens)].text = suffix
    THEN SubSeq(tokens, 1, Len(tokens) - 1)
    ELSE tokens

\* Query._process_query
ProcessQuery ==
    /\ compilePc = "new"
    /\ LET params == FromKeys(FieldNames(template))
       IN  /\ parameters' = params
           /\ prepareQuery' = RemoveSuffix(ReplaceParameters(template, params, 1), ";")
           /\ executeQuery' = [i \in DOMAIN params |-> "%(" \o params[i] \o ")s"]
    /\ compilePc' = "compiled"
    /\ UNCHANGED <<template, data, bound>>

\* The keyword arguments a caller passes: any of the names a, b and z, each
\* with a value or with None.
ArgumentNames == {"a", "b", "z"}
ArgumentValues == {Scalar(1), NoneValue}
Arguments == UNION {[names -> ArgumentValues] : names \in SUBSET ArgumentNames}

QueryDataPassThrough(params, d) == d

\* {parameter: data.get(parameter, None) for parameter in self.parameters}
QueryData(params, d) ==
    [p \in Range(params) |-> IF p \in DOMAIN d THEN d[p] ELSE NoneValue]

\* Query.__call__(**kwargs) and Query.execute(data), up to the call of _query
QueryExecuteData(d) ==
    /\ compilePc \in {"compiled", "executed"}
    /\ data' = d
    /\ bound' = QueryData(parameters, d)
    /\ compilePc' = "executed"
    /\ UNCHANGED <<template, parameters, prepareQuery, executeQuery>>

----------------------------------------------------------------------------
(* Two callers using the client at once: SimpleSQL._query run by two tasks *)
(* that interleave at its await points. The client has one connection,    *)
(* and the connection has one transaction: a statement joins the open      *)
(* transaction, commit() and rollback() end it for every statement in it,  *)
(* and a statement the server rejects leaves it aborted until it is ended. *)

MaxRuns == 3        \* _query calls made by the two tasks together

Tasks == {"t1", "t2"}

VARIABLES
    taskPc,         \* where each task's _query is
    work,           \* each task's statement: "none", "open" (executed, transaction
                    \* not ended), "committed" or "rolledback"
    taskError,      \* whether the driver reported an Error for the task's statement
    aborted,        \* whether the connection's transaction is in the failed state
    clobbered,      \* history: <<by, of>> when `by` ended a transaction holding the
                    \* statement of `of`, whose _query had not returned yet
    runs            \* the number of _query calls made so far

taskVars == <<taskPc, work, taskError, aborted, clobbered, runs>>

TaskIdle ==
    /\ taskPc = [t \in Tasks |-> "idle"]
    /\ work = [t \in Tasks |-> "none"]
    /\ taskError = [t \in Tasks |-> FALSE]
    /\ aborted = FALSE
    /\ clobbered = {}
    /\ runs = 0

\* The tasks other than t whose statement is in the open transaction.
OthersOpen(t) == {o \in Tasks \ {t} : work[o] = "open"}

\* What ending the transaction does to the statements in it.
EndTransaction(outcome) == [t \in Tasks |-> IF work[t] = "open" THEN outcome ELSE work[t]]

\* A task calls _query: cursor = AsyncClientCursor(self.connection)
TaskBegin(t) ==
    /\ connection = "open"
    /\ taskPc[t] \in {"idle", "done"}
    /\ runs < MaxRuns
    /\ runs' = runs + 1
    /\ taskPc' = [taskPc EXCEPT ![t] = "execute"]
    /\ work' = [work EXCEPT ![t] = "none"]
    /\ taskError' = [taskError EXCEPT ![t] = FALSE]
    /\ UNCHANGED <<aborted, clobbered>>

\* await cursor.execute(query, data): in an aborted transaction the server
\* rejects every statement; otherwise the statement joins the transaction,
\* or the server rejects it and the transaction is aborted.
TaskExecute(t, succeeds) ==
    /\ taskPc[t] = "execute"
    /\ IF succeeds /\ ~aborted
       THEN /\ work' = [work EXCEPT ![t] = "open"]
            /\ taskPc' = [taskPc EXCEPT ![t] = "fetchall"]
            /\ UNCHANGED <<taskError, aborted>>
       ELSE /\ aborted' = TRUE
            /\ taskError' = [taskError EXCEPT ![t] = TRUE]
            /\ taskPc' = [taskPc EXCEPT ![t] = "rollback"]
            /\ UNCHANGED work
    /\ UNCHANGED <<clobbered, runs>>

\* except Error: await self.connection.rollback(); return None
TaskRollback(t) ==
    /\ taskPc[t] = "rollback"
    /\ work' = EndTransaction("rolledback")
    /\ aborted' = FALSE
    /\ clobbered' = clobbered \cup {<<t, o>> : o \in OthersOpen(t)}
    /\ taskPc' = [taskPc EXCEPT ![t] = "done"]
    /\ UNCHANGED <<taskError, runs>>

\* if cursor.description: rows = await cursor.fetchall(); ...
TaskFetchall(t) ==
    /\ taskPc[t] = "fetchall"
    /\ taskPc' = [taskPc EXCEPT ![t] = "commit"]
    /\ UNCHANGED <<work, taskError, aborted, clobbered, runs>>

\* await self.connection.commit(): ends the transaction for every statement
\* in it; the server answers the COMMIT of an aborted transaction by
\* rolling it back.
TaskCommit(t) ==
    /\ taskPc[t] = "commit"
    /\ work' = EndTransaction(IF aborted THEN "rolledback" ELSE "committed")
    /\ aborted' = FALSE
    /\ clobbered' = clobbered \cup {<<t, o>> : o \in OthersOpen(t)}
    /\ taskPc' = [taskPc EXCEPT ![t] = "close"]
    /\ UNCHANGED <<taskError, runs>>

\* await cursor.close(); return output
TaskReturn(t) ==
    /\ taskPc[t] = "close"
    /\ taskPc' = [taskPc EXCEPT ![t] = "done"]
    /\ UNCHANGED <<work, taskError, aborted, clobbered, runs>>

----------------------------------------------------------------------------
(* Specifications. *)

vars == <<shapeVars, setupVars, lifeVars, listenVars, compileVars, taskVars>>

\* Result shaping applied to every result set of the bounds.
InitShape ==
    /\ \/ /\ description = NoDescription
          /\ rows = <<>>
       \/ \E cols \in SeqsUpTo(ColumnNames, MaxCols) :
            /\ description = Description(cols)
            /\ rows \in RowsFor(cols)
    /\ output = NoneValue
    /\ shaped = FALSE
    /\ SetupIdle
    /\ LifeIdle
    /\ ListenIdle
    /\ CompileIdle
    /\ TaskIdle

NextShape == ShapeResult /\ UNCHANGED <<setupVars, lifeVars, listenVars, compileVars, taskVars>>

SpecShape == InitShape /\ [][NextShape]_vars

\* Registration of queries and query lookup through client and routers.
InitSetup == ShapeIdle /\ SetupIdle /\ LifeIdle /\ ListenIdle /\ CompileIdle /\ TaskIdle

NextRegistry ==
    \/ \E l \in Listings, p \in Prefixes :
            IncludeQueries(l, p) /\ UNCHANGED <<shapeVars, lifeVars, listenVars, compileVars, taskVars>>
    \/ \E n \in QueryNames :
            ClientGetattr(n) /\ UNCHANGED <<shapeVars, lifeVars, listenVars, compileVars, taskVars>>
    \/ \E r \in Routers, n \in QueryNames :
            RouterGetattr(r, n) /\ UNCHANGED <<shapeVars, lifeVars, listenVars, compileVars, taskVars>>
    \/ \E r \in Routers :
            IncludeRouter(r) /\ UNCHANGED <<shapeVars, lifeVars, listenVars, compileVars, taskVars>>

SpecRegistry == InitSetup /\ [][NextRegistry]_vars

\* Composition of routers, listeners and pipes.
NextRouter ==
    \/ \E r \in Routers, e \in Range(Channels), c \in Callbacks :
            RouterAddListener(r, e, c) /\ UNCHANGED <<shapeVars, lifeVars, listenVars, compileVars, taskVars>>
    \/ \E e \in Range(Channels), c \in Callbacks :
            AddListener(e, c) /\ UNCHANGED <<shapeVars, lifeVars, listenVars, compileVars, taskVars>>
    \/ \E p, c \in Routers :
            RouterIncludeRouter(p, c) /\ UNCHANGED <<shapeVars, lifeVars, listenVars, compileVars, taskVars>>
    \/ \E r \in Routers :
            IncludeRouter(r) /\ UNCHANGED <<shapeVars, lifeVars, listenVars, compileVars, taskVars>>
    \/ \E c \in Callbacks :
            IncludePipe(c) /\ UNCHANGED <<shapeVars, lifeVars, listenVars, compileVars, taskVars>>

SpecRouter == InitSetup /\ [][NextRouter]_vars


----------------------------------------------------------------------------
\* start(), query executions and stop(), for every registry of the bounds.
InitLife ==
    /\ ShapeIdle
    /\ LifeIdle
    /\ ListenIdle
    /\ CompileIdle
    /\ TaskIdle
    /\ \E k \in 0..MaxRegistered :
        /\ queries = RegistryOf(k)
        /\ nextGuid = k + 1
    /\ routerDatabase = [r \in Routers |-> "None"]
    /\ lists = <<>>
    /\ routerListeners = [r \in Routers |-> EmptyDict]
    /\ listeners = EmptyDict
    /\ pipes = <<>>
    /\ result = Returned("__init__", "", NoneValue)
    /\ calls = 0
    /\ merged = {}
    /\ covered = {}

NextLife ==
    \/ \E connected \in BOOLEAN : StartConnect(connected) /\ UNCHANGED <<shapeVars, setupVars, listenVars, compileVars, taskVars>>
    \/ \E accepted \in BOOLEAN : StartPrepare(accepted) /\ UNCHANGED <<shapeVars, setupVars, listenVars, compileVars, taskVars>>
    \/ Stop /\ UNCHANGED <<shapeVars, setupVars, listenVars, compileVars, taskVars>>
    \/ StopDeallocate /\ UNCHANGED <<shapeVars, setupVars, listenVars, compileVars, taskVars>>
    \/ StopClose /\ UNCHANGED <<shapeVars, setupVars, listenVars, compileVars, taskVars>>
    \/ \E id \in DOMAIN queries : QueryBegin(id) /\ UNCHANGED <<setupVars, listenVars, compileVars, taskVars>>
    \/ \E succeeds \in BOOLEAN, r \in ExecutionResults :
            QueryExecute(succeeds, r) /\ UNCHANGED <<setupVars, listenVars, compileVars, taskVars>>
    \/ QueryRollback /\ UNCHANGED <<setupVars, listenVars, compileVars, taskVars>>
    \/ QueryFetchall /\ UNCHANGED <<setupVars, listenVars, compileVars, taskVars>>
    \/ QueryCommit /\ UNCHANGED <<setupVars, listenVars, compileVars, taskVars>>
    \/ QueryReturn /\ UNCHANGED <<setupVars, listenVars, compileVars, taskVars>>

SpecLife == InitLife /\ [][NextLife]_vars

\* The notification loop on an open connection, for every set-up of
\* listeners and pipes of the bounds.
CallbackAt(i) == IF i % 2 = 1 THEN "f" ELSE "g"
CallbackList(k) == [i \in 1..k |-> CallbackAt(i)]

InitListen ==
    /\ ShapeIdle
    /\ ListenIdle
    /\ CompileIdle
    /\ TaskIdle
    /\ connection = "open"
    /\ prepared = {}
    /\ mainPc = "started"
    /\ pending = <<>>
    /\ startOutcome = "returned"
    /\ stopOutcome = "none"
    /\ rejected = {}
    /\ execPc = "idle"
    /\ execGuid = 0
    /\ execCalls = <<>>
    /\ execReturn = Pending
    /\ execError = FALSE
    /\ executions = 0
    /\ queries = EmptyDict
    /\ nextGuid = 1
    /\ routerDatabase = [r \in Routers |-> "None"]
    /\ routerListeners = [r \in Routers |-> EmptyDict]
    /\ \E n \in [Range(Channels) -> 0..MaxListeners] :
        LET used == SelectSeq(Channels, LAMBDA e : n[e] > 0)
        IN  /\ lists = [k \in DOMAIN used |-> CallbackList(n[used[k]])]
            /\ listeners = [e \in Range(used) |-> IndexOf(used, e)]
    /\ \E k \in 0..MaxPipes : pipes = CallbackList(k)
    /\ result = Returned("__init__", "", NoneValue)
    /\ calls = 0
    /\ merged = {}
    /\ covered = {}

NextListen ==
    \/ ListenSubscribe /\ UNCHANGED <<shapeVars, setupVars, lifeVars, compileVars, taskVars>>
    \/ \E e \in Range(Channels), p \in Payloads :
            Receive(e, p) /\ UNCHANGED <<shapeVars, setupVars, lifeVars, compileVars, taskVars>>
    \/ \E first, second \in ListenerOutcomes :
            CallListener(first, second) /\ UNCHANGED <<shapeVars, setupVars, lifeVars, compileVars, taskVars>>
    \/ \E outcome \in ListenerOutcomes :
            CallPipe(outcome) /\ UNCHANGED <<shapeVars, setupVars, lifeVars, compileVars, taskVars>>
    \/ ListenFinally /\ UNCHANGED <<shapeVars, setupVars, lifeVars, compileVars, taskVars>>

SpecListen == InitListen /\ [][NextListen]_vars

\* Compilation of every query text of the bounds, and its execution with
\* every set of keyword arguments.
InitCompile ==
    /\ ShapeIdle
    /\ SetupIdle
    /\ LifeIdle
    /\ ListenIdle
    /\ TaskIdle
    /\ template \in SeqsUpTo(Tokens, MaxTokens)
    /\ parameters = <<>>
    /\ prepareQuery = <<>>
    /\ executeQuery = <<>>
    /\ compilePc = "new"
    /\ data = EmptyDict
    /\ bound = EmptyDict

NextCompile ==
    \/ ProcessQuery /\ UNCHANGED <<shapeVars, setupVars, lifeVars, listenVars, taskVars>>
    \/ \E d \in Arguments :
            QueryExecuteData(d) /\ UNCHANGED <<shapeVars, setupVars, lifeVars, listenVars, taskVars>>

SpecCompile == InitCompile /\ [][NextCompile]_vars

\* Composition followed by the notification loop: the client registers the
\* callback f and the pipe f, one router registers the callback g, all on
\* one channel, and the router is attached; then the loop runs on an open
\* connection.
DispatchChannel == "orders"
DispatchRouter == "r1"

InitDispatch ==
    /\ ShapeIdle
    /\ SetupIdle
    /\ ListenIdle
    /\ CompileIdle
    /\ TaskIdle
    /\ connection = "open"
    /\ prepared = {}
    /\ mainPc = "started"
    /\ pending = <<>>
    /\ startOutcome = "returned"
    /\ stopOutcome = "none"
    /\ rejected = {}
    /\ execPc = "idle"
    /\ execGuid = 0
    /\ execCalls = <<>>
    /\ execReturn = Pending
    /\ execError = FALSE
    /\ executions = 0

NextDispatch ==
    \/ /\ listenPc = "idle"
       /\ RouterAddListener(DispatchRouter, DispatchChannel, "g")
       /\ UNCHANGED <<shapeVars, lifeVars, listenVars, compileVars, taskVars>>
    \/ /\ listenPc = "idle"
       /\ AddListener(DispatchChannel, "f")
       /\ UNCHANGED <<shapeVars, lifeVars, listenVars, compileVars, taskVars>>
    \/ /\ listenPc = "idle"
       /\ IncludeRouter(DispatchRouter)
       /\ UNCHANGED <<shapeVars, lifeVars, listenVars, compileVars, taskVars>>
    \/ /\ listenPc = "idle"
       /\ IncludePipe("f")
       /\ UNCHANGED <<shapeVars, lifeVars, listenVars, compileVars, taskVars>>
    \/ ListenSubscribe /\ UNCHANGED <<shapeVars, setupVars, lifeVars, compileVars, taskVars>>
    \/ \E p \in Payloads :
            Receive(DispatchChannel, p) /\ UNCHANGED <<shapeVars, setupVars, lifeVars, compileVars, taskVars>>
    \/ \E first, second \in ListenerOutcomes :
            CallListener(first, second) /\ UNCHANGED <<shapeVars, setupVars, lifeVars, compileVars, taskVars>>
    \/ \E outcome \in ListenerOutcomes :
            CallPipe(outcome) /\ UNCHANGED <<shapeVars, setupVars, lifeVars, compileVars, taskVars>>
    \/ ListenFinally /\ UNCHANGED <<shapeVars, setupVars, lifeVars, compileVars, taskVars>>

SpecDispatch == InitDispatch /\ [][NextDispatch]_vars

\* start(), the notification loop running as a task of its own, and
\* stop(), for every registry and every set-up of listeners and pipes of
\* the bounds; listen() is called between the return of start() and the
\* call of stop(); the driver may raise for a command of the loop and the
\* task may be cancelled.
InitShutdown ==
    /\ ShapeIdle
    /\ LifeIdle
    /\ ListenIdle
    /\ CompileIdle
    /\ TaskIdle
    /\ \E k \in 0..MaxRegistered :
        /\ queries = RegistryOf(k)
        /\ nextGuid = k + 1
    /\ routerDatabase = [r \in Routers |-> "None"]
    /\ routerListeners = [r \in Routers |-> EmptyDict]
    /\ \E n \in [Range(Channels) -> 0..MaxListeners] :
        LET used == SelectSeq(Channels, LAMBDA e : n[e] > 0)
        IN  /\ lists = [k \in DOMAIN used |-> CallbackList(n[used[k]])]
            /\ listeners = [e \in Range(used) |-> IndexOf(used, e)]
    /\ \E k \in 0..MaxPipes : pipes = CallbackList(k)
    /\ result = Returned("__init__", "", NoneValue)
    /\ calls = 0
    /\ merged = {}
    /\ covered = {}

NextShutdown ==
    \/ \E connected \in BOOLEAN : StartConnect(connected) /\ UNCHANGED <<shapeVars, setupVars, listenVars, compileVars, taskVars>>
    \/ \E accepted \in BOOLEAN : StartPrepare(accepted) /\ UNCHANGED <<shapeVars, setupVars, listenVars, compileVars, taskVars>>
    \/ Stop /\ UNCHANGED <<shapeVars, setupVars, listenVars, compileVars, taskVars>>
    \/ StopDeallocate /\ UNCHANGED <<shapeVars, setupVars, listenVars, compileVars, taskVars>>
    \/ StopClose /\ UNCHANGED <<shapeVars, setupVars, listenVars, compileVars, taskVars>>
    \/ /\ mainPc = "started"
       /\ ListenSubscribe
       /\ UNCHANGED <<shapeVars, setupVars, lifeVars, compileVars, taskVars>>
    \/ /\ mainPc = "started"
       /\ ListenSubscribeFails
       /\ UNCHANGED <<shapeVars, setupVars, lifeVars, compileVars, taskVars>>
    \/ \E e \in Range(Channels), p \in Payloads :
            Receive(e, p) /\ UNCHANGED <<shapeVars, setupVars, lifeVars, compileVars, taskVars>>
    \/ \E first, second \in ListenerOutcomes :
            CallListener(first, second) /\ UNCHANGED <<shapeVars, setupVars, lifeVars, compileVars, taskVars>>
    \/ \E outcome \in ListenerOutcomes :
            CallPipe(outcome) /\ UNCHANGED <<shapeVars, setupVars, lifeVars, compileVars, taskVars>>
    \/ ListenCancel /\ UNCHANGED <<shapeVars, setupVars, lifeVars, compileVars, taskVars>>
    \/ ListenConnectionLost /\ UNCHANGED <<shapeVars, setupVars, lifeVars, compileVars, taskVars>>
    \/ ListenFinally /\ UNCHANGED <<shapeVars, setupVars, lifeVars, compileVars, taskVars>>
    \/ ListenFinallyFails /\ UNCHANGED <<shapeVars, setupVars, lifeVars, compileVars, taskVars>>
    \/ ListenFinallyOnClosed /\ UNCHANGED <<shapeVars, setupVars, lifeVars, compileVars, taskVars>>

SpecShutdown == InitShutdown /\ [][NextShutdown]_vars

\* Two tasks executing queries on the started client.
InitInterleave ==
    /\ ShapeIdle
    /\ SetupIdle
    /\ ListenIdle
    /\ CompileIdle
    /\ TaskIdle
    /\ connection = "open"
    /\ prepared = {}
    /\ mainPc = "started"
    /\ pending = <<>>
    /\ startOutcome = "returned"
    /\ stopOutcome = "none"
    /\ rejected = {}
    /\ execPc = "idle"
    /\ execGuid = 0
    /\ execCalls = <<>>
    /\ execReturn = Pending
    /\ execError = FALSE
    /\ executions = 0

NextInterleave ==
    \/ \E t \in Tasks :
            TaskBegin(t) /\ UNCHANGED <<shapeVars, setupVars, lifeVars, listenVars, compileVars>>
    \/ \E t \in Tasks, succeeds \in BOOLEAN :
            TaskExecute(t, succeeds) /\ UNCHANGED <<shapeVars, setupVars, lifeVars, listenVars, compileVars>>
    \/ \E t \in Tasks :
            TaskRollback(t) /\ UNCHANGED <<shapeVars, setupVars, lifeVars, listenVars, compileVars>>
    \/ \E t \in Tasks :
            TaskFetchall(t) /\ UNCHANGED <<shapeVars, setupVars, lifeVars, listenVars, compileVars>>
    \/ \E t \in Tasks :
            TaskCommit(t) /\ UNCHANGED <<shapeVars, setupVars, lifeVars, listenVars, compileVars>>
    \/ \E t \in Tasks :
            TaskReturn(t) /\ UNCHANGED <<shapeVars, setupVars, lifeVars, listenVars, compileVars>>

SpecInterleave == InitInterleave /\ [][NextInterleave]_vars

\* Routers included into routers and attached to a client whose registry
\* holds queries, and query lookup through the routers.
InitAncestors ==
    /\ ShapeIdle
    /\ LifeIdle
    /\ ListenIdle
    /\ CompileIdle
    /\ TaskIdle
    /\ \E k \in 0..MaxRegistered :
        /\ queries = RegistryOf(k)
        /\ nextGuid = k + 1
    /\ routerDatabase = [r \in Routers |-> "None"]
    /\ lists = <<>>
    /\ routerListeners = [r \in Routers |-> EmptyDict]
    /\ listeners = EmptyDict
    /\ pipes = <<>>
    /\ result = Returned("__init__", "", NoneValue)
    /\ calls = 0
    /\ merged = {}
    /\ covered = {}

NextAncestors ==
    \/ \E p, c \in Routers :
            RouterIncludeRouter(p, c) /\ UNCHANGED <<shapeVars, lifeVars, listenVars, compileVars, taskVars>>
    \/ \E r \in Routers :
            IncludeRouter(r) /\ UNCHANGED <<shapeVars, lifeVars, listenVars, compileVars, taskVars>>
    \/ \E r \in Routers, n \in QueryNames :
            RouterGetattr(r, n) /\ UNCHANGED <<shapeVars, lifeVars, listenVars, compileVars, taskVars>>

SpecAncestors == InitAncestors /\ [][NextAncestors]_vars

(* C1 (as stated): a result set with zero rows is returned as None,        *)
(* whatever the number of columns.                                         *)
C1_ZeroRowsIsNone ==
    (shaped /\ Len(rows) = 0) => output = NoneValue

(* C1 (amended): a result set with zero rows is returned as None only when *)
(* the statement has no result columns (description None or empty); with   *)
(* one or more columns zero rows are returned as the empty list.           *)
C1_ZeroRowsShape ==
    (shaped /\ Len(rows) = 0) =>
        IF description.present /\ Len(description.columns) >= 1
        THEN output.kind = "list" /\ Len(output.v) = 0
        ELSE output.kind = "None"

C1_Witness ==
    /\ shaped
    /\ Len(rows) = 0
    /\ description.present
    /\ Len(description.columns) = 2
    /\ output.kind = "list"

(* C2: with at least one row and at least one column the shape follows     *)
(* from the cardinality: 1x1 the scalar, 1xN one name->value mapping, Mx1  *)
(* the list of scalars in row order, MxN the list of mappings in row       *)
(* order, each mapping keyed by the column names.                          *)
IsRowMapping(d, cols, row) ==
    /\ DOMAIN d = Range(cols)
    /\ \A i \in DOMAIN cols :
        (\A j \in DOMAIN cols : j > i => cols[j] # cols[i]) => d[cols[i]] = row[i]

C2_ShapeByCardinality ==
    (shaped /\ Len(rows) >= 1 /\ description.present /\ Len(description.columns) >= 1) =>
        LET cols == description.columns IN
        /\ (Len(rows) = 1 /\ Len(cols) = 1) =>
            /\ output.kind = "scalar"
            /\ output.v = rows[1][1]
        /\ (Len(rows) = 1 /\ Len(cols) > 1) =>
            /\ output.kind = "dict"
            /\ IsRowMapping(output.v, cols, rows[1])
        /\ (Len(rows) > 1 /\ Len(cols) = 1) =>
            /\ output.kind = "list"
            /\ Len(output.v) = Len(rows)
            /\ \A r \in DOMAIN rows : output.v[r] = rows[r][1]
        /\ (Len(rows) > 1 /\ Len(cols) > 1) =>
            /\ output.kind = "list"
            /\ Len(output.v) = Len(rows)
            /\ \A r \in DOMAIN rows : IsRowMapping(output.v[r], cols, rows[r])

C2_Witness ==
    /\ shaped
    /\ Len(rows) = 2
    /\ description.present
    /\ description.columns = <<"a", "b">>
    /\ rows[1] # rows[2]
    /\ output.kind = "list"
    /\ output.v[2]["b"] = rows[2][2]

(* C8 (as stated): registering a query under an identifier the registry    *)
(* already holds fails and leaves the first registration in place: no      *)
(* step replaces or removes an entry of the registry.                      *)
C8_NoOverwrite ==
    [][\A id \in DOMAIN queries :
        id \in DOMAIN queries' /\ queries'[id] = queries[id]]_vars

(* C9: a lookup through a router attached to the client returns the        *)
(* client's query for every identifier the registry holds; a lookup        *)
(* through a router with no client raises; a lookup of an identifier the   *)
(* registry does not hold raises.                                          *)
C9_RouterLookup ==
    result.call = "SQLRouter.__getattr__" =>
        LET r == result.arg[1]
            name == result.arg[2]
        IN  /\ (routerDatabase[r] = "client" /\ name \in DOMAIN queries) =>
                (~result.raised /\ result.value = queries[name])
            /\ routerDatabase[r] = "None" => result.raised
            /\ name \notin DOMAIN queries => result.raised

C9_Witness ==
    /\ result.call = "SQLRouter.__getattr__"
    /\ routerDatabase[result.arg[1]] = "client"
    /\ result.arg[2] = "A_A"
    /\ ~result.raised
    /\ result.value.query = "q2"

(* C10 (as stated): once a router is attached to the client, it and every  *)
(* router merged into it before are bound: attaching any of them again     *)
(* raises and leaves the client's listeners as they were.                  *)
C10_AttachBindsMerged ==
    [][\A q \in covered :
        IncludeRouter(q) => (result'.raised /\ listeners' = listeners)]_vars

(* C5: once start() and then stop() have returned, no channel is           *)
(* subscribed and no statement is prepared on the server, whichever        *)
(* queries the registry holds and whichever of them the driver refused to  *)
(* prepare.                                                                *)
C5_StopLeavesNothing ==
    (startOutcome = "returned" /\ stopOutcome = "returned") =>
        (prepared = {} /\ subscribed = {})

C5_Witness ==
    /\ startOutcome = "returned"
    /\ stopOutcome = "returned"
    /\ rejected # {}
    /\ Cardinality(rejected) < Cardinality(DOMAIN queries)
    /\ prepared = {}

(* C6 (as stated): when the driver rejects the preparation of a registered *)
(* query during start(), start() does not return normally: the failure     *)
(* reaches its caller.                                                     *)
C6_PrepareFailurePropagates ==
    rejected # {} => startOutcome # "returned"

(* C7: every execution ends its transaction exactly once. When the driver  *)
(* reports an error for the statement the execution rolls back once, never *)
(* commits, and returns None without raising; when the statement succeeds  *)
(* it commits once, never rolls back, and returns the shaped result.       *)
Count(calls_, c) == Cardinality({i \in DOMAIN calls_ : calls_[i] = c})

C7_TransactionEndsOnce ==
    execPc = "done" =>
        /\ Count(execCalls, "commit") + Count(execCalls, "rollback") = 1
        /\ ~execReturn.raised
        /\ IF execError
           THEN /\ execCalls = <<"execute", "rollback">>
                /\ execReturn.value = NoneValue
           ELSE /\ Count(execCalls, "commit") = 1
                /\ execCalls[Len(execCalls) - 1] = "commit"
                /\ execReturn.value = QueryOutput(description, rows)

C7_Witness ==
    /\ execPc = "done"
    /\ executions = 2
    /\ execError
    /\ execGuid \in prepared
    /\ Count(execCalls, "rollback") = 1

(* C3 (as stated): a listener that raises does not end the loop, and the   *)
(* remaining listeners of the channel and every pipe are still invoked     *)
(* for that notification.                                                  *)
Invoked(to, i) == \E k \in DOMAIN delivered : delivered[k].to = to /\ delivered[k].index = i

AllInvoked ==
    /\ \A i \in DOMAIN ListenersOf(listeners, notification.channel) : Invoked("listener", i)
    /\ \A i \in DOMAIN pipes : Invoked("pipe", i)

ListenerRaised ==
    \E k \in DOMAIN delivered :
        delivered[k].to = "listener" /\ delivered[k].outcome # "returns"

C3_ListenerFailureIsolated ==
    ListenerRaised =>
        /\ ~(listenPc \in {"finally", "left"} /\ delivered[Len(delivered)].to = "listener")
        /\ listenPc \in {"waiting", "finally", "left"} => AllInvoked

(* C4 (as stated): once a notification has been dispatched (here: with     *)
(* every callback returning), every listener of its channel and every pipe *)
(* has been invoked, each with the decoded payload when the payload is     *)
(* JSON and with the raw string when it is not.                            *)
Decoded(payload) == IF IsJson(payload) THEN Loads(payload) ELSE StrValue(payload)

C4_SamePayloadForAll ==
    (listenPc = "waiting" /\ received > 0 /\
     \A k \in DOMAIN delivered : delivered[k].outcome = "returns") =>
        /\ AllInvoked
        /\ \A k \in DOMAIN delivered : delivered[k].arg = Decoded(notification.payload)

(* C11 (as stated): merging on inclusion is a snapshot. A listener added   *)
(* to a router after the router was attached to the client, or included    *)
(* into another router, leaves the listener lists of the client and of     *)
(* that other router as they were, on every channel.                       *)
ClientView == [e \in Range(Channels) |-> ListenersOf(listeners, e)]
RouterView(r) == [e \in Range(Channels) |-> ListenersOf(routerListeners[r], e)]

C11_MergeIsSnapshot ==
    [][\A r \in Routers, e \in Range(Channels), c \in Callbacks :
        RouterAddListener(r, e, c) =>
            /\ routerDatabase[r] = "client" => ClientView' = ClientView
            /\ \A p \in Routers \ {r} :
                <<p, r>> \in merged => RouterView(p)' = RouterView(p)]_vars

(* C12 (as stated): for every query text, compiling yields the names of    *)
(* its placeholders in first-occurrence order without duplicates, replaces *)
(* every placeholder occurrence by the marker $i of its name's 1-based     *)
(* position, and leaves exactly the markers $1..$N in the rewritten text,  *)
(* N being the number of parameters.                                       *)
IsPlaceholder(t) == t.kind = "field" /\ t.name # ""
Position(s, x) == CHOOSE i \in DOMAIN s : s[i] = x
FirstAt(name) ==
    CHOOSE i \in DOMAIN template :
        /\ IsPlaceholder(template[i]) /\ template[i].name = name
        /\ \A j \in 1..(i - 1) : ~(IsPlaceholder(template[j]) /\ template[j].name = name)
MarkersOf(tokens) ==
    {tokens[i].text : i \in DOMAIN tokens} \cap {"$" \o Str(k) : k \in DOMAIN Digits}

C12_CompileNumbersPlaceholders ==
    compilePc # "new" =>
        /\ Range(parameters) =
            {template[i].name : i \in {j \in DOMAIN template : IsPlaceholder(template[j])}}
        /\ \A i, j \in DOMAIN parameters : i < j =>
            /\ parameters[i] # parameters[j]
            /\ FirstAt(parameters[i]) < FirstAt(parameters[j])
        /\ \A i \in DOMAIN template : IsPlaceholder(template[i]) =>
            prepareQuery[i].text = "$" \o Str(Position(parameters, template[i].name))
        /\ MarkersOf(prepareQuery) = {"$" \o Str(k) : k \in 1..Len(parameters)}

(* C13: the dict execute passes on has exactly the query's parameters as   *)
(* keys: a parameter the caller gave is bound to the value given, a        *)
(* parameter the caller left out is bound to None, and an argument that is *)
(* no parameter is not passed on.                                          *)
C13_BindsDeclaredParameters ==
    compilePc = "executed" =>
        /\ DOMAIN bound = Range(parameters)
        /\ \A p \in Range(parameters) :
            bound[p] = IF p \in DOMAIN data THEN data[p] ELSE NoneValue
        /\ \A k \in DOMAIN data : k \notin Range(parameters) => k \notin DOMAIN bound

C13_Witness ==
    /\ compilePc = "executed"
    /\ parameters = <<"b", "a">>
    /\ DOMAIN data = {"a", "z"}
    /\ data["a"] = Scalar(1)
    /\ bound["a"] = Scalar(1)
    /\ bound["b"] = NoneValue
    /\ "z" \notin DOMAIN bound

(* C14: the callbacks of a notification's channel are invoked in the order *)
(* of the client's list, first to last, and every pipe in the order of the *)
(* pipe list, only after every callback of the channel has been invoked;   *)
(* the lists are in registration order: add_listener and include_pipe      *)
(* append, and attaching a router puts the router's callbacks after those  *)
(* the client already had.                                                 *)
DispatchInOrder ==
    /\ \A k \in DOMAIN delivered :
        LET before == IF k = 1 THEN Call("listener", 0, NoneValue, "returns")
                      ELSE delivered[k - 1]
        IN  IF delivered[k].to = before.to
            THEN delivered[k].index \in {before.index, before.index + 1}
            ELSE /\ before.to = "listener"
                 /\ before.index = Len(ListenersOf(listeners, notification.channel))
                 /\ delivered[k].index = 1
    /\ \A k \in DOMAIN delivered :
        delivered[k].index \in
            DOMAIN (IF delivered[k].to = "pipe" THEN pipes
                    ELSE ListenersOf(listeners, notification.channel))

RegistrationAppends ==
    /\ \A e \in Range(Channels), c \in Callbacks :
        AddListener(e, c) => ClientView'[e] = Append(ClientView[e], c)
    /\ \A r \in Routers :
        (IncludeRouter(r) /\ ~result'.raised) =>
            \A e \in Range(Channels) : ClientView'[e] = ClientView[e] \o RouterView(r)[e]
    /\ \A c \in Callbacks :
        IncludePipe(c) => pipes' = Append(pipes, c)

C14_InvocationOrder == []DispatchInOrder /\ [][RegistrationAppends]_vars

C14_Witness ==
    /\ routerDatabase[DispatchRouter] = "client"
    /\ RouterView(DispatchRouter)[DispatchChannel] = <<"g">>
    /\ ClientView[DispatchChannel] = <<"f", "g">>
    /\ pipes = <<"f">>
    /\ listenPc = "waiting"
    /\ Len(delivered) = 3
    /\ delivered[1].index = 1
    /\ delivered[2].index = 2
    /\ delivered[3].to = "pipe"

(* C15 (as stated): a query is executed only while its statement is        *)
(* prepared. An execution of a query whose statement is not prepared sends *)
(* nothing to the connection and ends by raising, never by returning a     *)
(* value as if the query had run.                                          *)
C15_ExecuteOnlyWhilePrepared ==
    (mainPc = "started" /\ execPc # "idle" /\ execGuid \notin prepared) =>
        /\ execCalls = <<>>
        /\ execPc = "done" => execReturn.raised

(* C16 (as stated): stop() follows a fixed order. Once stop() has begun to *)
(* deallocate, the loop has been cancelled and has left and no channel is  *)
(* subscribed; when the connection is closed no statement is prepared; and *)
(* no UNLISTEN or DEALLOCATE is issued on a closed connection.             *)
C16_ShutdownOrder ==
    /\ mainPc \in {"deallocating", "closing", "stopped"} =>
        (listenPc \in {"idle", "left"} /\ subscribed = {})
    /\ connection = "closed" => prepared = {}
    /\ \A i \in DOMAIN closedUse : closedUse[i] \notin {"UNLISTEN", "DEALLOCATE"}

(* C17 (as stated): whenever _listen has ended, on whatever path, every    *)
(* channel it subscribed is unsubscribed and its cursor is closed.         *)
C17_ListenCleansUp ==
    listenPc = "left" => (subscribed = {} /\ ~cursorOpen)

(* C18 (as stated): executions that interleave do not touch each other's   *)
(* transaction. No commit or rollback of one execution ends a transaction  *)
(* holding the statement of another execution that has not returned, and   *)
(* an execution whose statement the driver accepted ends with that         *)
(* statement committed.                                                    *)
C18_TransactionsIsolated ==
    /\ clobbered = {}
    /\ \A t \in Tasks :
        (taskPc[t] = "done" /\ ~taskError[t]) => work[t] = "committed"

(* C19 (as stated): lookup through a router walks up its ancestors. When   *)
(* the router, or a router it was included into, directly or through other *)
(* routers, is attached to the client, a lookup of a name the registry     *)
(* holds returns the client's query, whether the attachment came before or *)
(* after the inclusion.                                                    *)
HasAttachedAncestor(r) ==
    \E p \in Routers :
        routerDatabase[p] = "client" /\ r \in MergedInto({p}, Cardinality(Routers))

C19_LookupThroughAncestors ==
    [][\A r \in Routers, n \in QueryNames :
        (RouterGetattr(r, n) /\ HasAttachedAncestor(r) /\ n \in DOMAIN queries) =>
            (~result'.raised /\ result'.value = queries[n])]_vars

(* C20 (as stated): each listener of a notification's channel is invoked   *)
(* at most once for the notification, and exactly once when the dispatch   *)
(* of the notification has run to its end, whatever the payload and        *)
(* whatever the listener raises.                                           *)
TimesInvoked(to, i) ==
    Cardinality({k \in DOMAIN delivered : delivered[k].to = to /\ delivered[k].index = i})

C20_ListenerInvokedOnce ==
    \A i \in DOMAIN ListenersOf(listeners, notification.channel) :
        /\ TimesInvoked("listener", i) <= 1
        /\ (listenPc = "waiting" /\ received > 0) => TimesInvoked("listener", i) = 1

====
